---- MODULE Spec2Model ----
(***************************************************************************)
(* passmate: an encrypted vault of named secrets (src/src/lib.rs) and its  *)
(* command line (src/src/main.rs).                                         *)
(*                                                                         *)
(* A byte is a number in 0..255, a String or a Vec<u8> a sequence of       *)
(* bytes, a HashMap<String, String> a function from a finite set of names  *)
(* to values.  The file system is a function from paths to the file's      *)
(* bytes (or NoFile).                                                      *)
(*                                                                         *)
(* The library primitives the code calls are modelled by what they do on   *)
(* bytes, in miniature:                                                    *)
(*   - Argon2 (make_key) is a keyed byte digest of passphrase and salt;    *)
(*   - AES-256-GCM is a stream cipher (keystream added to the plaintext,   *)
(*     byte by byte) followed by a 16-byte tag, each tag byte a            *)
(*     polynomial hash of the ciphertext under a key-derived odd           *)
(*     multiplier, masked by a byte derived from key and nonce (the shape  *)
(*     of GHASH: a change of one ciphertext byte always changes the tag);  *)
(*   - serde_json writes and parses the JSON object of a string map, with  *)
(*     the escapes of '"' and '\'.                                         *)
(***************************************************************************)
EXTENDS Integers, Sequences, FiniteSets, TLC

VARIABLES vault, disk, res, saved, hist

vars == <<vault, disk, res, saved, hist>>

(***************************************************************************)
(* Program constants.                                                      *)
(***************************************************************************)
SaltLen == 16

NonceLen == 12

KeyLen == 32

TagLen == 16

MinSaltLen == 8

(***************************************************************************)
(* Bounds of the model: how many distinct salts and nonces the random      *)
(* sources can deliver.                                                    *)
(***************************************************************************)
NumSalts == 2

NumNonces == 2

(***************************************************************************)
(* The inputs: names, values and passphrases (byte strings).               *)
(*   Names:  "", "a"          Values: "", the two bytes '"' '\'            *)
(*   Passphrases: "p", "q"                                                 *)
(***************************************************************************)
Names == {<<>>, <<97>>}

Values == {<<>>, <<34, 92>>}

Passphrases == {<<112>>, <<113>>}

Paths == {"default.vault"}

VaultIds == {1, 2}

NoVault == [open |-> FALSE]

NoFile == [exists |-> FALSE]

(***************************************************************************)
(* Sequences of bytes.                                                     *)
(***************************************************************************)
Take(s, n) == SubSeq(s, 1, n)

Drop(s, n) == SubSeq(s, n + 1, Len(s))

\* slice::split_at(mid): panics when mid > len.
SplitAtPanics(s, mid) == mid > Len(s)

SplitAt(s, mid) == <<Take(s, mid), Drop(s, mid)>>

(***************************************************************************)
(* serde_json::to_vec(&HashMap<String, String>): the object's members in   *)
(* the map's iteration order, which is arbitrary: order is a sequence of   *)
(* the keys, each once.                                                    *)
(***************************************************************************)
Quote == 34

Backslash == 92

\* A writer that escapes the quote and not the backslash.
RECURSIVE Escape_QuoteOnly(_)
Escape_QuoteOnly(s) ==
    IF s = <<>> THEN <<>>
    ELSE IF Head(s) = Quote
         THEN <<Backslash, Head(s)>> \o Escape_QuoteOnly(Tail(s))
         ELSE <<Head(s)>> \o Escape_QuoteOnly(Tail(s))

RECURSIVE Escape(_)
Escape(s) ==
    IF s = <<>> THEN <<>>
    ELSE IF Head(s) \in {Quote, Backslash}
         THEN <<Backslash, Head(s)>> \o Escape(Tail(s))
         ELSE <<Head(s)>> \o Escape(Tail(s))

JsonString(s) == <<Quote>> \o Escape(s) \o <<Quote>>

RECURSIVE JsonMembers(_, _)
JsonMembers(data, order) ==
    IF order = <<>> THEN <<>>
    ELSE JsonString(Head(order)) \o <<58>> \o JsonString(data[Head(order)])
         \o (IF Len(order) > 1 THEN <<44>> ELSE <<>>)
         \o JsonMembers(data, Tail(order))

to_vec(data, order) == <<123>> \o JsonMembers(data, order) \o <<125>>

\* The iteration orders of a map: the sequences of its keys, each once.
KeyOrders(data) ==
    LET K == DOMAIN data
        n == Cardinality(K)
    IN  {o \in [1..n -> K] : \A i, j \in 1..n : o[i] = o[j] => i = j}

(***************************************************************************)
(* serde_json::from_slice::<HashMap<String, String>>: a JSON object whose  *)
(* members are strings; a repeated key keeps the last value; anything      *)
(* else (a byte that fits nowhere, input left over, input ending early) is *)
(* an error.  Strings are read with the escapes \" and \\, the two the     *)
(* writer above produces; white space and the other escapes of JSON are    *)
(* not read (the bytes parsed here are always bytes to_vec wrote, since    *)
(* only authenticated plaintext reaches the parser).                       *)
(***************************************************************************)
JsonErr == [ok |-> FALSE]

\* Reads a string whose opening quote is before position i.
RECURSIVE ReadString(_, _, _)
ReadString(s, i, acc) ==
    IF i > Len(s) THEN JsonErr
    ELSE IF s[i] = Quote THEN [ok |-> TRUE, str |-> acc, next |-> i + 1]
    ELSE IF s[i] = Backslash
         THEN IF i + 1 <= Len(s) /\ s[i + 1] \in {Quote, Backslash}
              THEN ReadString(s, i + 2, Append(acc, s[i + 1]))
              ELSE JsonErr
    ELSE IF s[i] < 32 THEN JsonErr
    ELSE ReadString(s, i + 1, Append(acc, s[i]))

ParseString(s, i) ==
    IF i <= Len(s) /\ s[i] = Quote THEN ReadString(s, i + 1, <<>>) ELSE JsonErr

\* An insert that keeps the value of a key the map holds already.
MapInsert_KeepsOld(m, k, v) ==
    [x \in (DOMAIN m) \cup {k} |-> IF x \in DOMAIN m THEN m[x] ELSE v]

MapInsert(m, k, v) == [x \in (DOMAIN m) \cup {k} |-> IF x = k THEN v ELSE m[x]]

\* A remove that keeps the key and drops the others.
MapRemove_KeepsOnly(m, k) == [x \in (DOMAIN m) \cap {k} |-> m[x]]

MapRemove(m, k) == [x \in (DOMAIN m) \ {k} |-> m[x]]

EmptyMap == [x \in {} |-> <<>>]

\* Reads the members from position i on, the first of them at i.
RECURSIVE ReadMembers(_, _, _)
ReadMembers(s, i, m) ==
    LET k == ParseString(s, i)
    IN  IF ~k.ok THEN JsonErr
        ELSE IF ~(k.next <= Len(s) /\ s[k.next] = 58) THEN JsonErr
        ELSE LET v == ParseString(s, k.next + 1)
             IN  IF ~v.ok THEN JsonErr
                 ELSE IF v.next > Len(s) THEN JsonErr
                 ELSE IF s[v.next] = 44
                      THEN ReadMembers(s, v.next + 1, MapInsert(m, k.str, v.str))
                 ELSE IF s[v.next] = 125 /\ v.next = Len(s)
                      THEN [ok |-> TRUE, map |-> MapInsert(m, k.str, v.str)]
                 ELSE JsonErr

from_slice(s) ==
    IF Len(s) < 2 \/ s[1] # 123 THEN JsonErr
    ELSE IF s[2] = 125
         THEN IF Len(s) = 2 THEN [ok |-> TRUE, map |-> EmptyMap] ELSE JsonErr
    ELSE ReadMembers(s, 2, EmptyMap)

(***************************************************************************)
(* The byte digest the miniature primitives share: a fold over the bytes   *)
(* from a seed, under an odd multiplier (so that every byte counts).       *)
(***************************************************************************)
RECURSIVE Fold(_, _, _, _)
Fold(b, i, h, m) ==
    IF i > Len(b) THEN h ELSE Fold(b, i + 1, (h * m + b[i] + 1) % 256, m)

Mix(b, seed) == Fold(b, 1, (seed + Len(b)) % 256, (2 * seed + 1) % 256)

\* A sequence given by its elements, evaluated once.
Bytes(f) == <<>> \o f

\* A key made of the salt alone.
make_key_SaltOnly(pwd, salt) ==
    IF Len(salt) < MinSaltLen
    THEN [ok |-> FALSE, err |-> "EncryptionKey"]
    ELSE LET d == <<Mix(salt, 1), Mix(salt, 2), Mix(salt, 3), Mix(salt, 4)>>
         IN  [ok |-> TRUE,
              key |-> Bytes([i \in 1..KeyLen |->
                               (d[((i - 1) % 4) + 1] * (2 * i + 1) + i) % 256])]

(***************************************************************************)
(* make_key: Argon2 of passphrase and salt into 32 bytes: four digests of  *)
(* passphrase and salt, spread over the key.  Argon2 rejects a salt        *)
(* shorter than 8 bytes.                                                   *)
(***************************************************************************)
make_key(pwd, salt) ==
    IF Len(salt) < MinSaltLen
    THEN [ok |-> FALSE, err |-> "EncryptionKey"]
    ELSE LET input == pwd \o salt
             d == <<Mix(input, 1), Mix(input, 2), Mix(input, 3), Mix(input, 4)>>
         IN  [ok |-> TRUE,
              key |-> Bytes([i \in 1..KeyLen |->
                               (d[((i - 1) % 4) + 1] * (2 * i + 1) + i) % 256])]

(***************************************************************************)
(* generate_salt and Aes256Gcm::generate_nonce: the bytes the random       *)
(* source delivers on its s-th possible outcome.                           *)
(***************************************************************************)
generate_salt(s) == Bytes([i \in 1..SaltLen |-> (41 * s + 7 * i) % 256])

generate_nonce(n) == Bytes([i \in 1..NonceLen |-> (89 * n + 5 * i) % 256])

Salts == {generate_salt(s) : s \in 1..NumSalts}

Nonces == {generate_nonce(n) : n \in 1..NumNonces}

(***************************************************************************)
(* AES-256-GCM in miniature.                                               *)
(***************************************************************************)
\* The keystream byte for position j; nd is the nonce's digest.
Keystream(key, nd, j) ==
    (key[((j - 1) % KeyLen) + 1] + nd * (2 * j + 1) + j) % 256

\* Horner's rule: sum of ct[i] * h^(n - i + 1), modulo 256.
RECURSIVE Poly(_, _, _, _)
Poly(ct, i, acc, h) ==
    IF i > Len(ct) THEN acc ELSE Poly(ct, i + 1, ((acc + ct[i]) * h) % 256, h)

\* The tag: per byte, the ciphertext's polynomial hash under an odd
\* multiplier taken from the key, masked by a byte of key and nonce.
TagOf(key, nonce, ct) ==
    LET nd == Mix(nonce, 1)
        p == <<Poly(ct, 1, 0, (2 * key[1] + 1) % 256),
               Poly(ct, 1, 0, (2 * key[2] + 1) % 256)>>
    IN  Bytes([t \in 1..TagLen |->
                 (key[t + TagLen] * (2 * nd + 1) + Len(ct)
                    + p[(t % 2) + 1] * (2 * t + 1)) % 256])

\* Aead::encrypt: the ciphertext followed by the tag.
Seal(key, nonce, pt) ==
    LET nd == Mix(nonce, 2)
        ct == Bytes([j \in 1..Len(pt) |-> (pt[j] + Keystream(key, nd, j)) % 256])
    IN  ct \o TagOf(key, nonce, ct)

\* A decryption that does not compare the tag.
Unseal_NoTagCheck(key, nonce, sealed) ==
    IF Len(sealed) < TagLen THEN [ok |-> FALSE]
    ELSE LET ct == Take(sealed, Len(sealed) - TagLen)
             nd == Mix(nonce, 2)
         IN  [ok |-> TRUE,
              data |-> Bytes([j \in 1..Len(ct) |->
                          (ct[j] + 256 - Keystream(key, nd, j)) % 256])]

\* Aead::decrypt: an error when the input is shorter than a tag or the tag
\* is not the ciphertext's.
Unseal(key, nonce, sealed) ==
    IF Len(sealed) < TagLen THEN [ok |-> FALSE]
    ELSE LET ct == Take(sealed, Len(sealed) - TagLen)
             tag == Drop(sealed, Len(sealed) - TagLen)
             nd == Mix(nonce, 2)
         IN  IF TagOf(key, nonce, ct) # tag THEN [ok |-> FALSE]
             ELSE [ok |-> TRUE,
                   data |-> Bytes([j \in 1..Len(ct) |->
                               (ct[j] + 256 - Keystream(key, nd, j)) % 256])]

\* An encrypt that puts the nonce after the ciphertext and the tag.
encrypt_NonceLast(key, data, nonce) == Seal(key, nonce, data) \o nonce

\* encrypt(key, data): the nonce followed by the sealed data.
encrypt(key, data, nonce) == nonce \o Seal(key, nonce, data)

\* decrypt(key, encrypted_data): split_at(12) panics on a shorter input.
decrypt(key, encrypted_data) ==
    IF SplitAtPanics(encrypted_data, NonceLen) THEN [kind |-> "Panic"]
    ELSE LET parts == SplitAt(encrypted_data, NonceLen)
             r == Unseal(key, parts[1], parts[2])
         IN  IF r.ok THEN [kind |-> "Ok", data |-> r.data]
             ELSE [kind |-> "Decrypt"]

(***************************************************************************)
(* Vault: {path, passphrase, data}.                                        *)
(***************************************************************************)
Vault(path, passphrase, data) ==
    [open |-> TRUE, path |-> path, passphrase |-> passphrase, data |-> data]

\* The outcomes of File::open and read_to_end the file system can deliver
\* besides success: "open" is an error other than NotFound.
OpenFaults == {"none", "open", "read"}

\* The outcomes of std::fs::write besides success: "create" fails before the
\* file is touched, "write" after it was truncated and partly written.
WriteFaults == {"none", "create", "write"}

\* An open without the NotFound arm: a missing file is an I/O error.
VaultOpen_MissingIsError(file, path, passphrase, fault) ==
    IF fault = "open" \/ ~file.exists \/ fault = "read" THEN [kind |-> "IO"]
    ELSE IF SplitAtPanics(file.bytes, SaltLen) THEN [kind |-> "Panic"]
    ELSE LET parts == SplitAt(file.bytes, SaltLen)
             k == make_key(passphrase, parts[1])
         IN  IF ~k.ok THEN [kind |-> k.err]
             ELSE LET d == decrypt(k.key, parts[2])
                  IN  IF d.kind # "Ok" THEN [kind |-> d.kind]
                      ELSE LET j == from_slice(d.data)
                           IN  IF ~j.ok THEN [kind |-> "Json"]
                               ELSE [kind |-> "Ok",
                                     vault |-> Vault(path, passphrase, j.map)]

\* An open that reports a plaintext it cannot parse as a failed decryption.
VaultOpen_JsonIsDecrypt(file, path, passphrase, fault) ==
    IF fault = "open" THEN [kind |-> "IO"]
    ELSE IF ~file.exists THEN [kind |-> "Ok", vault |-> Vault(path, passphrase, EmptyMap)]
    ELSE IF fault = "read" THEN [kind |-> "IO"]
    ELSE IF SplitAtPanics(file.bytes, SaltLen) THEN [kind |-> "Panic"]
    ELSE LET parts == SplitAt(file.bytes, SaltLen)
             k == make_key(passphrase, parts[1])
         IN  IF ~k.ok THEN [kind |-> k.err]
             ELSE LET d == decrypt(k.key, parts[2])
                  IN  IF d.kind # "Ok" THEN [kind |-> d.kind]
                      ELSE LET j == from_slice(d.data)
                           IN  IF ~j.ok THEN [kind |-> "Decrypt"]
                               ELSE [kind |-> "Ok",
                                     vault |-> Vault(path, passphrase, j.map)]

\* An open that reports a failed read of the file as a failed decryption.
VaultOpen_ReadIsDecrypt(file, path, passphrase, fault) ==
    IF fault = "open" THEN [kind |-> "IO"]
    ELSE IF ~file.exists THEN [kind |-> "Ok", vault |-> Vault(path, passphrase, EmptyMap)]
    ELSE IF fault = "read" THEN [kind |-> "Decrypt"]
    ELSE IF SplitAtPanics(file.bytes, SaltLen) THEN [kind |-> "Panic"]
    ELSE LET parts == SplitAt(file.bytes, SaltLen)
             k == make_key(passphrase, parts[1])
         IN  IF ~k.ok THEN [kind |-> k.err]
             ELSE LET d == decrypt(k.key, parts[2])
                  IN  IF d.kind # "Ok" THEN [kind |-> d.kind]
                      ELSE LET j == from_slice(d.data)
                           IN  IF ~j.ok THEN [kind |-> "Json"]
                               ELSE [kind |-> "Ok",
                                     vault |-> Vault(path, passphrase, j.map)]

(***************************************************************************)
(* Vault::open(path, passphrase) on the file at path.                      *)
(***************************************************************************)
VaultOpen(file, path, passphrase, fault) ==
    IF fault = "open" THEN [kind |-> "IO"]
    ELSE IF ~file.exists
         THEN [kind |-> "Ok", vault |-> Vault(path, passphrase, EmptyMap)]
    ELSE IF fault = "read" THEN [kind |-> "IO"]
    ELSE IF SplitAtPanics(file.bytes, SaltLen) THEN [kind |-> "Panic"]
    ELSE LET parts == SplitAt(file.bytes, SaltLen)
             k == make_key(passphrase, parts[1])
         IN  IF ~k.ok THEN [kind |-> k.err]
             ELSE LET d == decrypt(k.key, parts[2])
                  IN  IF d.kind # "Ok" THEN [kind |-> d.kind]
                      ELSE LET j == from_slice(d.data)
                           IN  IF ~j.ok THEN [kind |-> "Json"]
                               ELSE [kind |-> "Ok",
                                     vault |-> Vault(path, passphrase, j.map)]

(***************************************************************************)
(* Vault::entries, get, set, remove.                                       *)
(***************************************************************************)
\* String's Ord: bytewise lexicographic.
StrLess(a, b) ==
    \E k \in 1..(Len(b)) :
        /\ \A i \in 1..(k - 1) : i <= Len(a) /\ a[i] = b[i]
        /\ Len(a) >= k - 1
        /\ (Len(a) = k - 1 \/ a[k] < b[k])

RECURSIVE SortInsert(_, _)
SortInsert(sorted, x) ==
    IF sorted = <<>> THEN <<x>>
    ELSE IF StrLess(x, Head(sorted)) THEN <<x>> \o sorted
    ELSE <<Head(sorted)>> \o SortInsert(Tail(sorted), x)

RECURSIVE Sort(_)
Sort(s) == IF s = <<>> THEN <<>> ELSE SortInsert(Sort(Tail(s)), Head(s))

\* The keys as collected, not sorted.
vault_entries_Unsorted(v, order) == order

\* keys().cloned().collect() in the iteration order, then sort().
vault_entries(v, order) == Sort(order)

None == [some |-> FALSE]

Some(x) == [some |-> TRUE, value |-> x]

vault_get(v, name) ==
    IF name \in DOMAIN v.data THEN Some(v.data[name]) ELSE None

vault_set(v, name, value) == [v EXCEPT !.data = MapInsert(v.data, name, value)]

vault_remove(v, name) == [v EXCEPT !.data = MapRemove(v.data, name)]

(***************************************************************************)
(* Vault::save: the bytes it hands to std::fs::write, or the error that    *)
(* ends it before.                                                         *)
(***************************************************************************)
SaveContents(v, salt, nonce, order) ==
    LET k == make_key(v.passphrase, salt)
    IN  IF ~k.ok THEN [kind |-> k.err]
        ELSE LET data == to_vec(v.data, order)
                 encrypted_data == encrypt(k.key, data, nonce)
             IN  [kind |-> "Ok", contents |-> salt \o encrypted_data]

\* The maps over the model's names and values.
Maps == UNION {[S -> Values] : S \in SUBSET Names}

\* SaveContents over the model's inputs, evaluated once: SavedBytes(v, ...)
\* is SaveContents(v, ...).
SaveInputs ==
    UNION {{<<pw, data, order, salt, nonce>> :
               pw \in Passphrases, order \in KeyOrders(data),
               salt \in Salts, nonce \in Nonces} : data \in Maps}

SaveTable ==
    [x \in SaveInputs |->
        SaveContents(Vault("", x[1], x[2]), x[4], x[5], x[3])] @@ <<>>

SavedBytes(v, salt, nonce, order) ==
    LET x == <<v.passphrase, v.data, order, salt, nonce>>
    IN  IF x \in DOMAIN SaveTable THEN SaveTable[x]
        ELSE SaveContents(v, salt, nonce, order)

\* The lengths at which a failed write can leave the file: empty, cut
\* inside or right after the salt, inside or right after the nonce.
PartialLens ==
    {0, SaltLen - 1, SaltLen, SaltLen + NonceLen - 1, SaltLen + NonceLen}

FileOf(bytes) == [exists |-> TRUE, bytes |-> bytes]

\* Vault::open of every file a save can write, under every passphrase,
\* computed once.
OpenInputs == {SaveTable[x].contents : x \in SaveInputs} \X Passphrases

OpenTable ==
    [x \in OpenInputs |-> VaultOpen(FileOf(x[1]), "", x[2], "none")] @@ <<>>

\* Vault::open(path, passphrase) of a file that holds bytes and is read
\* without a failure.
OpenedBytes(bytes, path, passphrase) ==
    LET x == <<bytes, passphrase>>
    IN  IF x \in DOMAIN OpenTable
        THEN LET r == OpenTable[x]
             IN  IF r.kind = "Ok"
                 THEN [kind |-> "Ok", vault |-> Vault(path, passphrase, r.vault.data)]
                 ELSE r
        ELSE VaultOpen(FileOf(bytes), path, passphrase, "none")

\* A write that refuses to replace a file that is there (create_new).
FsWrite_FailsIfExists(file, contents, fault, cut) ==
    IF file.exists THEN [kind |-> "IO", file |-> file]
    ELSE IF fault = "none" THEN [kind |-> "Ok", file |-> FileOf(contents)]
    ELSE IF fault = "create" THEN [kind |-> "IO", file |-> file]
    ELSE [kind |-> "IO", file |-> FileOf(Take(contents, cut))]

\* A write that appends to the file instead of replacing it.
FsWrite_Appends(file, contents, fault, cut) ==
    IF fault = "none"
    THEN [kind |-> "Ok",
          file |-> FileOf((IF file.exists THEN file.bytes ELSE <<>>) \o contents)]
    ELSE IF fault = "create" THEN [kind |-> "IO", file |-> file]
    ELSE [kind |-> "IO", file |-> FileOf(Take(contents, cut))]

\* std::fs::write(path, contents).
FsWrite(file, contents, fault, cut) ==
    IF fault = "none" THEN [kind |-> "Ok", file |-> FileOf(contents)]
    ELSE IF fault = "create" THEN [kind |-> "IO", file |-> file]
    ELSE [kind |-> "IO", file |-> FileOf(Take(contents, cut))]

(***************************************************************************)
(* The state: vault[i] is the Vault the i-th owner holds (or NoVault),     *)
(* disk[p] the file at path p, res the last operation with its arguments   *)
(* and result.  saved[p] records the last save that succeeded on p (the    *)
(* passphrase and map it wrote), whether the file still holds the bytes    *)
(* it wrote, and which byte was changed since.  hist records what the     *)
(* random source has handed out (drawn) and, in order, the saves that      *)
(* succeeded (written): who saved, what was drawn and serialized, and the  *)
(* bytes the file held when save returned.                                 *)
(***************************************************************************)
NoSave == [done |-> FALSE]

\* A save of (passphrase, data) succeeded and the file holds its bytes;
\* flipped is the offset of the byte changed since, if one was.
SavedAs(passphrase, data) ==
    [done |-> TRUE, passphrase |-> passphrase, data |-> data,
     intact |-> TRUE, flipped |-> -1]

\* Nothing drawn from the random source, nothing written.
NoHist == [drawn |-> {}, written |-> <<>>]

Init ==
    /\ vault = [i \in VaultIds |-> NoVault]
    /\ disk = [p \in Paths |-> NoFile]
    /\ res = [op |-> "init", kind |-> "Ok"]
    /\ saved = [p \in Paths |-> NoSave]
    /\ hist = NoHist

Open(i, path, passphrase, fault) ==
    /\ ~vault[i].open
    /\ LET r == VaultOpen(disk[path], path, passphrase, fault)
       IN  /\ vault' = [vault EXCEPT ![i] = IF r.kind = "Ok" THEN r.vault ELSE NoVault]
           /\ res' = [op |-> "open", vid |-> i, path |-> path,
                      passphrase |-> passphrase, fault |-> fault, kind |-> r.kind]
    /\ UNCHANGED <<disk, saved, hist>>

\* order is the order in which the map hands out its keys.
Entries(i) ==
    /\ vault[i].open
    /\ \E order \in KeyOrders(vault[i].data) :
           res' = [op |-> "entries", vid |-> i, kind |-> "Ok",
                   ret |-> vault_entries(vault[i], order)]
    /\ UNCHANGED <<vault, disk, saved, hist>>

Get(i, name) ==
    /\ vault[i].open
    /\ res' = [op |-> "get", vid |-> i, name |-> name, kind |-> "Ok",
               ret |-> vault_get(vault[i], name)]
    /\ UNCHANGED <<vault, disk, saved, hist>>

\* A set on a map that the vaults opened from the same path share.
Set_Shared(i, name, value) ==
    /\ vault[i].open
    /\ vault' = [j \in VaultIds |->
                   IF vault[j].open /\ vault[j].path = vault[i].path
                   THEN vault_set(vault[j], name, value)
                   ELSE vault[j]]
    /\ res' = [op |-> "set", vid |-> i, name |-> name, value |-> value,
               kind |-> "Ok"]
    /\ UNCHANGED <<disk, saved, hist>>

Set(i, name, value) ==
    /\ vault[i].open
    /\ vault' = [vault EXCEPT ![i] = vault_set(vault[i], name, value)]
    /\ res' = [op |-> "set", vid |-> i, name |-> name, value |-> value,
               kind |-> "Ok"]
    /\ UNCHANGED <<disk, saved, hist>>

Remove(i, name) ==
    /\ vault[i].open
    /\ vault' = [vault EXCEPT ![i] = vault_remove(vault[i], name)]
    /\ res' = [op |-> "remove", vid |-> i, name |-> name, kind |-> "Ok"]
    /\ UNCHANGED <<disk, saved, hist>>

\* A save that takes the map out of the vault to write it and puts it back
\* only when the write succeeded.
SaveWrite_DropsMapOnError(i, c, fault, cut) ==
    /\ vault[i].open
    /\ LET v == vault[i]
           w == IF c.kind = "Ok" THEN FsWrite(disk[v.path], c.contents, fault, cut)
                ELSE [kind |-> c.kind, file |-> disk[v.path]]
       IN  /\ disk' = [disk EXCEPT ![v.path] = w.file]
           /\ res' = [op |-> "save", vid |-> i, fault |-> fault, kind |-> w.kind]
           /\ saved' = [saved EXCEPT ![v.path] =
                 IF w.kind = "Ok"
                 THEN SavedAs(v.passphrase, v.data)
                 ELSE IF saved[v.path].done /\ w.file # disk[v.path]
                      THEN [saved[v.path] EXCEPT !.intact = FALSE]
                      ELSE saved[v.path]]
           /\ vault' = IF w.kind = "Ok" THEN vault
                       ELSE [vault EXCEPT ![i].data = EmptyMap]

\* save() from the point where the bytes to write, c.contents, or the
\* error that ends it, c.kind, are known: std::fs::write and the return.
SaveWrite(i, c, fault, cut) ==
    /\ vault[i].open
    /\ LET v == vault[i]
           w == IF c.kind = "Ok" THEN FsWrite(disk[v.path], c.contents, fault, cut)
                ELSE [kind |-> c.kind, file |-> disk[v.path]]
       IN  /\ disk' = [disk EXCEPT ![v.path] = w.file]
           /\ res' = [op |-> "save", vid |-> i, fault |-> fault, kind |-> w.kind]
           /\ saved' = [saved EXCEPT ![v.path] =
                 IF w.kind = "Ok"
                 THEN SavedAs(v.passphrase, v.data)
                 ELSE IF saved[v.path].done /\ w.file # disk[v.path]
                      THEN [saved[v.path] EXCEPT !.intact = FALSE]
                      ELSE saved[v.path]]
    /\ UNCHANGED vault

\* The owner lets go of its Vault (the value goes out of scope).
Close(i) ==
    /\ vault[i].open
    /\ vault' = [vault EXCEPT ![i] = NoVault]
    /\ res' = [op |-> "close", vid |-> i, kind |-> "Ok"]
    /\ UNCHANGED <<disk, saved, hist>>

\* Vault::save, over the outcomes of the random source (salt, nonce), of
\* the map's iteration (order) and of the file system (fault, cut).
Save(i) ==
    /\ vault[i].open
    /\ \E salt \in Salts, nonce \in Nonces :
         \E order \in KeyOrders(vault[i].data) :
            LET c == SavedBytes(vault[i], salt, nonce, order)
            IN  \E fault \in WriteFaults :
                    \E cut \in IF fault = "write" THEN PartialLens ELSE {0} :
                        SaveWrite(i, c, fault, cut)
    /\ UNCHANGED hist

Next ==
    \/ \E p \in Paths, pw \in Passphrases, f \in OpenFaults : Open(1, p, pw, f)
    \/ \E n \in Names, v \in Values : Set(1, n, v)
    \/ \E n \in Names : Remove(1, n)
    \/ \E n \in Names : Get(1, n)
    \/ Entries(1)
    \/ Save(1)
    \/ Close(1)

Spec == Init /\ [][Next]_vars

(***************************************************************************)
(* What the claims speak of.                                               *)
(***************************************************************************)
\* The last operation was an open of path p that read the file system
\* without an I/O failure.
Opened(p) == res.op = "open" /\ res.path = p /\ res.fault = "none"

\* The file at p holds exactly the bytes the last successful save wrote.
Intact(p) == saved[p].done /\ saved[p].intact

(***************************************************************************)
(* C1. Round trip: when the file holds what a successful save of a vault   *)
(* with passphrase P and entry map M wrote, open with P returns a vault    *)
(* whose entry map is M: the same names, the same values.                  *)
(***************************************************************************)
C1_RoundTrip ==
    \A p \in Paths :
        (Opened(p) /\ Intact(p) /\ res.passphrase = saved[p].passphrase)
            => /\ res.kind = "Ok"
               /\ vault[res.vid].open
               /\ vault[res.vid].data = saved[p].data

C1_Witness ==
    \E p \in Paths :
        /\ Opened(p) /\ Intact(p) /\ res.passphrase = saved[p].passphrase
        /\ res.kind = "Ok"
        /\ DOMAIN saved[p].data = Names
        /\ \E n \in Names : saved[p].data[n] = <<34, 92>>

(***************************************************************************)
(* C2. Wrong passphrase: when the file holds what a successful save of a   *)
(* vault with passphrase P wrote, open with a passphrase other than P      *)
(* returns the Decrypt error: no Vault, no other error.                    *)
(***************************************************************************)
C2_WrongPassphrase ==
    \A p \in Paths :
        (Opened(p) /\ Intact(p) /\ res.passphrase # saved[p].passphrase)
            => /\ res.kind = "Decrypt"
               /\ ~vault[res.vid].open

C2_Witness ==
    \E p \in Paths :
        /\ Opened(p) /\ Intact(p) /\ res.passphrase # saved[p].passphrase
        /\ res.kind = "Decrypt"
        /\ saved[p].data # EmptyMap

(***************************************************************************)
(* C4. open returns a Vault or one of the typed errors, whatever the file  *)
(* holds: it never panics.                                                 *)
(***************************************************************************)
C4_OpenReturnsTyped ==
    res.op = "open" => res.kind \in {"Ok", "IO", "EncryptionKey", "Decrypt", "Json"}

(***************************************************************************)
(* C5. Missing file: open of a path with no file returns, for every        *)
(* passphrase, a Vault with an empty map, and leaves the path without a    *)
(* file; and when the file holds what a save of an empty map wrote, open   *)
(* with the same passphrase returns an empty map.                          *)
(***************************************************************************)
C5_MissingFile ==
    [][\A p \in Paths :
         /\ (res'.op = "open" /\ res'.path = p /\ res'.fault = "none"
                /\ ~disk[p].exists)
              => /\ res'.kind = "Ok"
                 /\ vault'[res'.vid] = Vault(p, res'.passphrase, EmptyMap)
                 /\ disk' = disk
         /\ (res'.op = "open" /\ res'.path = p /\ res'.fault = "none"
                /\ Intact(p) /\ saved[p].data = EmptyMap
                /\ res'.passphrase = saved[p].passphrase)
              => /\ res'.kind = "Ok"
                 /\ vault'[res'.vid].data = EmptyMap]_vars

\* An empty vault was opened from a missing file, saved, and opened again.
C5_Witness ==
    \E p \in Paths :
        /\ Opened(p) /\ Intact(p) /\ saved[p].data = EmptyMap
        /\ res.passphrase = saved[p].passphrase
        /\ res.kind = "Ok"
        /\ vault[res.vid].data = EmptyMap

(***************************************************************************)
(* C6. A save that fails leaves the vault as it was: path, passphrase and  *)
(* entry map.                                                              *)
(***************************************************************************)
C6_FailedSaveKeepsVault ==
    [][(res'.op = "save" /\ res'.kind # "Ok") => vault' = vault]_vars

C6_Witness ==
    /\ res.op = "save" /\ res.kind = "IO"
    /\ vault[res.vid].open
    /\ vault[res.vid].data # EmptyMap
    /\ \E p \in Paths : saved[p].done /\ saved[p].data # vault[res.vid].data

(***************************************************************************)
(* C7. Only save writes the file, and the file opens to the entry map of   *)
(* the most recent successful save.                                        *)
(***************************************************************************)
OnlySaveWrites == [][disk' # disk => res'.op = "save"]_vars

OpensTo(p, passphrase, data) ==
    LET r == VaultOpen(disk[p], p, passphrase, "none")
    IN  r.kind = "Ok" /\ r.vault.data = data

\* As claimed: after any sequence of set, remove and save.
C7_FileIsLastSave ==
    \A p \in Paths :
        saved[p].done => OpensTo(p, saved[p].passphrase, saved[p].data)

\* As amended: unless a later save failed after it began to write.
C7_FileIsLastSaveUnlessTorn ==
    /\ [](\A p \in Paths :
            Intact(p) => OpensTo(p, saved[p].passphrase, saved[p].data))
    /\ OnlySaveWrites

C7_Witness ==
    \E p \in Paths :
        /\ Intact(p)
        /\ res.op \in {"set", "remove"}
        /\ vault[res.vid].data # saved[p].data
        /\ saved[p].data # EmptyMap

(***************************************************************************)
(* The in-memory operations alone, over more names:                        *)
(*   "", "a", "ab", "b".                                                   *)
(***************************************************************************)
MemNames == {<<>>, <<97>>, <<97, 98>>, <<98>>}

NextMem ==
    \/ \E p \in Paths, pw \in Passphrases : Open(1, p, pw, "none")
    \/ \E n \in MemNames, v \in Values : Set(1, n, v)
    \/ \E n \in MemNames : Remove(1, n)
    \/ \E n \in MemNames : Get(1, n)
    \/ Entries(1)
    \/ Close(1)

SpecMem == Init /\ [][NextMem]_vars

(***************************************************************************)
(* C8. set is insert-or-overwrite: after set(name, v), get(name) returns   *)
(* v, whatever the map held; the names are those before and name; every    *)
(* other name has the value it had.                                        *)
(***************************************************************************)
C8_SetInsertsOrOverwrites ==
    [][res'.op = "set" =>
        LET i == res'.vid
            n == res'.name
        IN  /\ vault_get(vault'[i], n) = Some(res'.value)
            /\ DOMAIN vault'[i].data = DOMAIN vault[i].data \cup {n}
            /\ \A m \in MemNames \ {n} :
                   vault_get(vault'[i], m) = vault_get(vault[i], m)
            /\ vault'[i].path = vault[i].path
            /\ vault'[i].passphrase = vault[i].passphrase]_vars

\* The empty name was set to the empty value in a map that holds all names.
C8_Witness ==
    /\ res.op = "set" /\ res.name = <<>> /\ res.value = <<>>
    /\ DOMAIN vault[res.vid].data = MemNames
    /\ \A m \in MemNames \ {<<>>} : vault[res.vid].data[m] # <<>>

(***************************************************************************)
(* C9. remove never fails and is idempotent: after remove(name), get(name) *)
(* returns none and every other entry is as before; remove of an absent    *)
(* name changes nothing; a second remove(name) changes nothing.            *)
(***************************************************************************)
C9_RemoveIdempotent ==
    [][res'.op = "remove" =>
        LET i == res'.vid
            n == res'.name
        IN  /\ res'.kind = "Ok"
            /\ vault_get(vault'[i], n) = None
            /\ DOMAIN vault'[i].data = DOMAIN vault[i].data \ {n}
            /\ \A m \in MemNames \ {n} :
                   vault_get(vault'[i], m) = vault_get(vault[i], m)
            /\ (n \notin DOMAIN vault[i].data => vault' = vault)
            /\ vault_remove(vault'[i], n) = vault'[i]]_vars

C9_Witness ==
    /\ res.op = "remove"
    /\ res.name \notin DOMAIN vault[res.vid].data
    /\ Cardinality(DOMAIN vault[res.vid].data) = 3

(***************************************************************************)
(* C10. entries() returns the names of the map, each once, in ascending    *)
(* bytewise order, whatever the map's iteration order; two calls in a row  *)
(* return the same sequence; the map is unchanged.                         *)
(***************************************************************************)
C10_EntriesSorted ==
    [][res'.op = "entries" =>
        LET i == res'.vid
            e == res'.ret
        IN  /\ {e[k] : k \in 1..Len(e)} = DOMAIN vault[i].data
            /\ Len(e) = Cardinality(DOMAIN vault[i].data)
            /\ \A k \in 1..(Len(e) - 1) : StrLess(e[k], e[k + 1])
            /\ (Len(e) = 4 => e = <<<<>>, <<97>>, <<97, 98>>, <<98>>>>)
            /\ (res.op = "entries" /\ res.vid = i => e = res.ret)
            /\ vault' = vault]_vars

C10_Witness ==
    /\ res.op = "entries"
    /\ res.ret = <<<<>>, <<97>>, <<97, 98>>, <<98>>>>

(***************************************************************************)
(* A saved file with one byte changed behind the program's back.  The      *)
(* specification starts where a save has just succeeded (an empty vault    *)
(* was opened, entries were set, save wrote the file), then one byte of    *)
(* the file is changed and the file is opened.                             *)
(***************************************************************************)
\* What is added to the byte, modulo 256: the next value, the top bit.
FlipDeltas == {1, 128}

InitTamper ==
    \E p \in Paths, pw \in Passphrases, data \in Maps,
       salt \in Salts, nonce \in Nonces :
        \E order \in KeyOrders(data) :
            LET v == Vault(p, pw, data)
            IN  /\ vault = [i \in VaultIds |-> IF i = 1 THEN v ELSE NoVault]
                /\ disk = [q \in Paths |->
                             IF q = p
                             THEN FileOf(SavedBytes(v, salt, nonce, order).contents)
                             ELSE NoFile]
                /\ res = [op |-> "save", vid |-> 1, fault |-> "none", kind |-> "Ok"]
                /\ saved = [q \in Paths |->
                              IF q = p THEN SavedAs(pw, data) ELSE NoSave]
                /\ hist = NoHist

\* One byte of the file at p, at any offset (counted from 0), becomes
\* another one.
Tamper(p) ==
    /\ Intact(p)
    /\ \E offset \in 0..(Len(disk[p].bytes) - 1), delta \in FlipDeltas :
          /\ disk' = [disk EXCEPT ![p].bytes[offset + 1] = (@ + delta) % 256]
          /\ saved' = [saved EXCEPT ![p].intact = FALSE, ![p].flipped = offset]
    /\ res' = [op |-> "tamper", kind |-> "Ok"]
    /\ UNCHANGED <<vault, hist>>

NextTamper ==
    \/ \E p \in Paths : Tamper(p)
    \/ \E p \in Paths, pw \in Passphrases : Open(2, p, pw, "none")

SpecTamper == InitTamper /\ [][NextTamper]_vars

(***************************************************************************)
(* C3. Tamper detection: when one byte at offset 28 or later of a saved    *)
(* file was changed, open with the passphrase of the save returns the      *)
(* Decrypt error and no Vault.                                             *)
(***************************************************************************)
C3_TamperDetected ==
    \A p \in Paths :
        (Opened(p) /\ saved[p].done /\ saved[p].flipped >= SaltLen + NonceLen
            /\ res.passphrase = saved[p].passphrase)
          => /\ res.kind = "Decrypt"
             /\ ~vault[res.vid].open

\* The last byte of the ciphertext of a two-entry map was changed.
C3_Witness ==
    \E p \in Paths :
        /\ Opened(p) /\ saved[p].done
        /\ res.passphrase = saved[p].passphrase
        /\ DOMAIN saved[p].data = Names
        /\ saved[p].flipped = Len(disk[p].bytes) - TagLen - 1
        /\ res.kind = "Decrypt"

(***************************************************************************)
(* Two owners of a Vault on the same path, and a random source that never  *)
(* hands out the same salt or the same nonce twice (what 16 and 12 bytes   *)
(* from a cryptographic generator give, up to a chance of 2^-128 and       *)
(* 2^-96).  Every save draws from it, so a behaviour has at most as many   *)
(* saves as there are salts.                                               *)
(***************************************************************************)
\* Vault::save_StoredSalt: the salt is not drawn, it is a fixed one.
SaveFresh_StoredSalt(i) ==
    /\ vault[i].open
    /\ \E salt \in {generate_salt(1)}, nonce \in Nonces \ hist.drawn :
         \E order \in KeyOrders(vault[i].data) :
            LET c == SavedBytes(vault[i], salt, nonce, order)
            IN  /\ SaveWrite(i, c, "none", 0)
                /\ hist' =
                     [drawn |-> hist.drawn \cup {salt, nonce},
                      written |->
                        IF res'.kind = "Ok"
                        THEN Append(hist.written,
                                 [vid |-> i, passphrase |-> vault[i].passphrase,
                                  data |-> vault[i].data,
                                  salt |-> salt, nonce |-> nonce,
                                  bytes |-> disk'[vault[i].path].bytes])
                        ELSE hist.written]

\* Vault::save with the salt and the nonce it draws and the order in which
\* the map is serialized, on a file system that does not fail; a save that
\* succeeded is recorded.
SaveFresh(i) ==
    /\ vault[i].open
    /\ \E salt \in Salts \ hist.drawn, nonce \in Nonces \ hist.drawn :
         \E order \in KeyOrders(vault[i].data) :
            LET c == SavedBytes(vault[i], salt, nonce, order)
            IN  /\ SaveWrite(i, c, "none", 0)
                /\ hist' =
                     [drawn |-> hist.drawn \cup {salt, nonce},
                      written |->
                        IF res'.kind = "Ok"
                        THEN Append(hist.written,
                                 [vid |-> i, passphrase |-> vault[i].passphrase,
                                  data |-> vault[i].data,
                                  salt |-> salt, nonce |-> nonce,
                                  bytes |-> disk'[vault[i].path].bytes])
                        ELSE hist.written]

\* The value the two owners set: a quote and a backslash.
TwoValue == <<Quote, Backslash>>

\* What the owners type: the first either passphrase, the second "p", so
\* that they open under the same passphrase or under different ones.
OwnerPassphrases(i) == IF i = 1 THEN Passphrases ELSE {<<112>>}

NextTwo ==
    \/ \E i \in VaultIds, p \in Paths :
          \E pw \in OwnerPassphrases(i) : Open(i, p, pw, "none")
    \/ \E i \in VaultIds, n \in Names : Set(i, n, TwoValue)
    \/ \E i \in VaultIds : SaveFresh(i)

SpecTwo == Init /\ [][NextTwo]_vars

\* Vault::open of a file holding these bytes returns a Vault with this map.
BytesOpenTo(bytes, passphrase, data) ==
    LET r == OpenedBytes(bytes, "", passphrase)
    IN  r.kind = "Ok" /\ r.vault.data = data

\* The last operation was a save that succeeded; hist.written ends with it.
JustSaved == res.op = "save" /\ res.kind = "Ok" /\ Len(hist.written) > 0

LastWritten == hist.written[Len(hist.written)]

(***************************************************************************)
(* C11. Fresh salt and nonce per save: whenever a save has succeeded (by   *)
(* one vault or the other, of any passphrase and map), the file it wrote   *)
(* differs from the file every earlier successful save wrote in its salt   *)
(* (bytes 0..16) and in its nonce (bytes 16..28), so the two files differ, *)
(* and it opens with the passphrase of the save to the map of the save     *)
(* (two saves of the same map under the same passphrase: two different     *)
(* files that open to the same map).                                       *)
(***************************************************************************)
C11_FreshSaltAndNonce ==
    JustSaved =>
        LET b == LastWritten
        IN  /\ BytesOpenTo(b.bytes, b.passphrase, b.data)
            /\ \A j \in 1..(Len(hist.written) - 1) :
                  LET a == hist.written[j]
                  IN  /\ SubSeq(a.bytes, 1, 16) # SubSeq(b.bytes, 1, 16)
                      /\ SubSeq(a.bytes, 17, 28) # SubSeq(b.bytes, 17, 28)
                      /\ a.bytes # b.bytes

\* Two saves of the same two-entry map under the same passphrase.
C11_Witness ==
    /\ JustSaved
    /\ Len(hist.written) = 2
    /\ hist.written[1].passphrase = hist.written[2].passphrase
    /\ hist.written[1].data = hist.written[2].data
    /\ DOMAIN hist.written[1].data = Names
    /\ hist.written[1].bytes # hist.written[2].bytes

(***************************************************************************)
(* A file that was not written by save: a writer that knows the            *)
(* passphrase sealed some other bytes in the container (salt, nonce,       *)
(* ciphertext and tag under the key derived from passphrase and salt).     *)
(* hist.written holds what it sealed.                                      *)
(***************************************************************************)
\* Plaintexts that are not the JSON text of a map of strings: nothing, an
\* object left open, an array, an object with a number for a value, an
\* object with a character after it.
BadPlaintexts ==
    {<<>>, <<123>>, <<91, 93>>, <<123, Quote, 97, Quote, 58, 49, 125>>,
     <<123, Quote, 97, Quote, 58, Quote, Quote, 125, 120>>}

\* Plaintexts that are: the empty object, an object with one member.
MapPlaintexts == {<<123, 125>>, <<123, Quote, 97, Quote, 58, Quote, Quote, 125>>}

InitFormat ==
    \E p \in Paths, pw \in Passphrases, salt \in Salts, nonce \in Nonces,
       plaintext \in BadPlaintexts \cup MapPlaintexts :
        LET bytes == salt \o encrypt(make_key(pw, salt).key, plaintext, nonce)
        IN  /\ vault = [i \in VaultIds |-> NoVault]
            /\ disk = [q \in Paths |-> IF q = p THEN FileOf(bytes) ELSE NoFile]
            /\ res = [op |-> "init", kind |-> "Ok"]
            /\ saved = [q \in Paths |-> NoSave]
            /\ hist = [drawn |-> {salt, nonce},
                       written |-> <<[vid |-> 0, passphrase |-> pw,
                                      plaintext |-> plaintext, salt |-> salt,
                                      nonce |-> nonce, bytes |-> bytes]>>]

NextFormat ==
    \E i \in VaultIds, p \in Paths, pw \in Passphrases : Open(i, p, pw, "none")

SpecFormat == InitFormat /\ [][NextFormat]_vars

(***************************************************************************)
(* C12. FormatError is distinct from DecryptionError: open with the        *)
(* passphrase the file was sealed under, when the plaintext is not the     *)
(* text of a name-to-value map, returns the Json error (and not Decrypt);  *)
(* open with another passphrase, where authentication fails, returns the   *)
(* Decrypt error (and not Json) whatever the plaintext.  Neither returns   *)
(* a Vault.                                                                *)
(***************************************************************************)
C12_FormatNotDecrypt ==
    \A p \in Paths :
        Opened(p) =>
            LET w == hist.written[1]
            IN  /\ (res.passphrase = w.passphrase /\ w.plaintext \in BadPlaintexts)
                     => (res.kind = "Json" /\ ~vault[res.vid].open)
                /\ res.passphrase # w.passphrase
                     => (res.kind = "Decrypt" /\ ~vault[res.vid].open)

\* The file holds an authentic array, and was opened with its passphrase.
C12_Witness ==
    \E p \in Paths :
        /\ Opened(p)
        /\ res.passphrase = hist.written[1].passphrase
        /\ hist.written[1].plaintext = <<91, 93>>
        /\ res.kind = "Json"

(***************************************************************************)
(* C13. open returns IOError exactly for file system failures other than   *)
(* a missing file: when File::open failed with a kind other than NotFound, *)
(* or the file was there and reading it failed, open returned the IO error *)
(* and no Vault; in every other case, a missing file among them, open did  *)
(* not return the IO error.                                                *)
(***************************************************************************)
C13_IOErrorExactly ==
    res.op = "open" =>
        LET failed == \/ res.fault = "open"
                      \/ res.fault = "read" /\ disk[res.path].exists
        IN  /\ failed => (res.kind = "IO" /\ ~vault[res.vid].open)
            /\ ~failed => res.kind # "IO"
            /\ (~disk[res.path].exists /\ res.fault # "open") => res.kind = "Ok"

\* Reading a file that holds a successful save failed.
C13_Witness ==
    /\ res.op = "open"
    /\ res.fault = "read"
    /\ Intact(res.path)
    /\ res.passphrase = saved[res.path].passphrase
    /\ res.kind = "IO"

(***************************************************************************)
(* C14. Lost update between unsynchronised writers: every save by either   *)
(* of two vaults on the same path succeeds, whatever the other has saved   *)
(* since this one was opened, and leaves a file that opens to the map of   *)
(* the vault that saved, and to nothing else: a name an earlier save wrote *)
(* and the last saver's map does not hold is absent.  No operation fails   *)
(* on account of the other vault: the only error is the Decrypt error of   *)
(* an open with a passphrase other than that of the last save.             *)
(***************************************************************************)
C14_LostUpdate ==
    /\ res.kind # "Ok" =>
          /\ res.op = "open"
          /\ saved[res.path].done
          /\ res.passphrase # saved[res.path].passphrase
          /\ res.kind = "Decrypt"
    /\ JustSaved =>
          LET b == LastWritten
              r == OpenedBytes(disk[vault[b.vid].path].bytes, vault[b.vid].path,
                               b.passphrase)
          IN  /\ res.vid = b.vid
              /\ b.data = vault[b.vid].data
              /\ r.kind = "Ok"
              /\ r.vault.data = b.data
              /\ \A j \in 1..(Len(hist.written) - 1) :
                    \A name \in DOMAIN hist.written[j].data :
                        name \notin DOMAIN b.data
                            => vault_get(r.vault, name) = None

\* Both vaults were opened on the missing file with the same passphrase;
\* vault 1 set "a" and saved, then vault 2, which had set "", saved: the
\* file opens to vault 2's map and "a" is gone.
C14_Witness ==
    /\ JustSaved
    /\ Len(hist.written) = 2
    /\ hist.written[1].vid = 1 /\ hist.written[2].vid = 2
    /\ hist.written[1].passphrase = hist.written[2].passphrase
    /\ DOMAIN hist.written[1].data = {<<97>>}
    /\ DOMAIN hist.written[2].data = {<<>>}
    /\ vault[1].open /\ DOMAIN vault[1].data = {<<97>>}
    /\ OpensTo(vault[2].path, vault[2].passphrase, vault[2].data)
    /\ ~OpensTo(vault[2].path, vault[2].passphrase, hist.written[1].data)

(***************************************************************************)
(* The command line: one run of the binary after the other on the vault    *)
(* file in the configuration directory.  A run asks for the password,      *)
(* opens the vault, carries out its command, and exits; its Vault does     *)
(* not outlive it.  res holds what the run printed and how it exited;      *)
(* hist.written is the sequence of the set and remove runs that exited     *)
(* with success.  Reading the file does not fail here (that is C13);       *)
(* writing it may.                                                         *)
(***************************************************************************)
MaxCmds == 2

CliPath == "default.vault"

\* " not found", the text after the name on the error stream.
NotFoundText == <<32, 110, 111, 116, 32, 102, 111, 117, 110, 100>>

\* The exit status: 0 when main returns Ok, 101 when it panics, 1 when it
\* returns an error or calls exit(1).
ExitCode(kind) == IF kind = "Ok" THEN 0 ELSE IF kind = "Panic" THEN 101 ELSE 1

\* open_vault: the password as typed, then Vault::open on the file.
open_vault(passphrase) ==
    LET file == disk[CliPath]
    IN  IF file.exists THEN OpenedBytes(file.bytes, CliPath, passphrase)
        ELSE VaultOpen(file, CliPath, passphrase, "none")

CliExit(cmd, name, passphrase, kind, out, err) ==
    res' = [op |-> "cli", cmd |-> cmd, name |-> name, passphrase |-> passphrase,
            kind |-> kind, exit |-> ExitCode(kind), out |-> out, err |-> err]

CliList(passphrase) ==
    /\ LET o == open_vault(passphrase)
       IN  IF o.kind # "Ok"
           THEN CliExit("ls", <<>>, passphrase, o.kind, <<>>, <<>>)
           ELSE \E order \in KeyOrders(o.vault.data) :
                    CliExit("ls", <<>>, passphrase, "Ok",
                            vault_entries(o.vault, order), <<>>)
    /\ UNCHANGED <<vault, disk, saved, hist>>

CliGet(name, passphrase) ==
    /\ LET o == open_vault(passphrase)
       IN  IF o.kind # "Ok"
           THEN CliExit("get", name, passphrase, o.kind, <<>>, <<>>)
           ELSE LET g == vault_get(o.vault, name)
                IN  IF g.some
                    THEN CliExit("get", name, passphrase, "Ok", <<g.value>>, <<>>)
                    ELSE CliExit("get", name, passphrase, "NotFound", <<>>,
                                 name \o NotFoundText)
    /\ UNCHANGED <<vault, disk, saved, hist>>

\* vault.save()? and the end of main, for the run of command entry whose
\* vault is v after the command.  A write that fails leaves the file as it
\* was, or empty.
CliSave(entry, v) ==
    \E salt \in Salts, nonce \in Nonces :
      \E order \in KeyOrders(v.data) :
        LET c == SavedBytes(v, salt, nonce, order)
        IN  \E fault \in WriteFaults, cut \in {0} :
                LET w == IF c.kind = "Ok"
                         THEN FsWrite(disk[v.path], c.contents, fault, cut)
                         ELSE [kind |-> c.kind, file |-> disk[v.path]]
                IN  /\ disk' = [disk EXCEPT ![v.path] = w.file]
                    /\ saved' = [saved EXCEPT ![v.path] =
                          IF w.kind = "Ok"
                          THEN SavedAs(v.passphrase, v.data)
                          ELSE IF saved[v.path].done /\ w.file # disk[v.path]
                               THEN [saved[v.path] EXCEPT !.intact = FALSE]
                               ELSE saved[v.path]]
                    /\ hist' = IF w.kind = "Ok"
                               THEN [hist EXCEPT !.written = Append(@, entry)]
                               ELSE hist
                    /\ CliExit(entry.cmd, entry.name, v.passphrase, w.kind,
                               <<>>, <<>>)

\* A set that does not save before it exits.
CliSet_NoSave(name, value, passphrase) ==
    /\ Len(hist.written) < MaxCmds
    /\ LET o == open_vault(passphrase)
       IN  IF o.kind # "Ok"
           THEN /\ CliExit("set", name, passphrase, o.kind, <<>>, <<>>)
                /\ UNCHANGED <<disk, saved, hist>>
           ELSE /\ CliExit("set", name, passphrase, "Ok", <<>>, <<>>)
                /\ hist' = [hist EXCEPT !.written =
                              Append(@, [cmd |-> "set", name |-> name,
                                         value |-> value])]
                /\ UNCHANGED <<disk, saved>>
    /\ UNCHANGED vault

CliSet(name, value, passphrase) ==
    /\ Len(hist.written) < MaxCmds
    /\ LET o == open_vault(passphrase)
       IN  IF o.kind # "Ok"
           THEN /\ CliExit("set", name, passphrase, o.kind, <<>>, <<>>)
                /\ UNCHANGED <<disk, saved, hist>>
           ELSE CliSave([cmd |-> "set", name |-> name, value |-> value],
                        vault_set(o.vault, name, value))
    /\ UNCHANGED vault

CliRemove(name, passphrase) ==
    /\ Len(hist.written) < MaxCmds
    /\ LET o == open_vault(passphrase)
       IN  IF o.kind # "Ok"
           THEN /\ CliExit("remove", name, passphrase, o.kind, <<>>, <<>>)
                /\ UNCHANGED <<disk, saved, hist>>
           ELSE CliSave([cmd |-> "remove", name |-> name],
                        vault_remove(o.vault, name))
    /\ UNCHANGED vault

NextCli ==
    \/ \E pw \in Passphrases : CliList(pw)
    \/ \E n \in Names, pw \in Passphrases : CliGet(n, pw)
    \/ \E n \in Names, v \in Values, pw \in Passphrases : CliSet(n, v, pw)
    \/ \E n \in Names, pw \in Passphrases : CliRemove(n, pw)

SpecCli == Init /\ [][NextCli]_vars

\* What the runs log[1..k] leave under name: the value of the last set of
\* name if no remove of name came after it.
RECURSIVE Surviving(_, _, _)
Surviving(log, k, name) ==
    IF k = 0 THEN None
    ELSE IF log[k].name = name
         THEN IF log[k].cmd = "set" THEN Some(log[k].value) ELSE None
    ELSE Surviving(log, k - 1, name)

\* The run that just ended used the password of the runs before it, and
\* no run has failed while writing the file.
SamePassword ==
    /\ res.op = "cli"
    /\ \/ ~disk[CliPath].exists /\ hist.written = <<>>
       \/ Intact(CliPath) /\ res.passphrase = saved[CliPath].passphrase

(***************************************************************************)
(* C15. Persistence across runs of the binary: after any sequence of set   *)
(* and remove runs on the same file with the same password, get name       *)
(* prints the value of the last set of name and exits with 0 when no       *)
(* remove of name ran after it, and otherwise prints "name not found" on   *)
(* the error stream and exits with a failure status; ls prints the names   *)
(* that survive, each once, in ascending order, and exits with 0.  get     *)
(* and ls leave the file as it is.                                         *)
(***************************************************************************)
C15_CliPersistence ==
    /\ [](SamePassword =>
            LET log == hist.written
            IN  /\ res.cmd = "get" =>
                      LET e == Surviving(log, Len(log), res.name)
                      IN  IF e.some
                          THEN res.exit = 0 /\ res.out = <<e.value>> /\ res.err = <<>>
                          ELSE /\ res.exit # 0 /\ res.out = <<>>
                               /\ res.err = res.name \o NotFoundText
                /\ res.cmd = "ls" =>
                      /\ res.exit = 0
                      /\ {res.out[i] : i \in 1..Len(res.out)} =
                            {n \in Names : Surviving(log, Len(log), n).some}
                      /\ \A i, j \in 1..Len(res.out) :
                            i < j => StrLess(res.out[i], res.out[j]))
    /\ [][(res'.op = "cli" /\ res'.cmd \in {"get", "ls"}) => disk' = disk]_vars

\* A value was set, set again to another value, and get printed the second.
C15_Witness ==
    /\ SamePassword
    /\ res.cmd = "get" /\ res.name = <<97>>
    /\ Len(hist.written) = 2
    /\ hist.written[1] = [cmd |-> "set", name |-> <<97>>, value |-> <<34, 92>>]
    /\ hist.written[2] = [cmd |-> "set", name |-> <<97>>, value |-> <<>>]
    /\ res.exit = 0
    /\ res.out = <<<<>>>>

(***************************************************************************)
(* C16. Container layout: the file a successful save wrote is the salt     *)
(* the save drew (16 bytes), then the nonce it drew (12 bytes), then the   *)
(* ciphertext of the serialized map and its 16-byte tag under the key      *)
(* derived from the passphrase and that salt; its length is 16 + 12 +      *)
(* (length of the serialized map) + 16, at least 44; and open, splitting   *)
(* the file at 16 and the rest at 12, reads that salt and that nonce.      *)
(***************************************************************************)
C16_ContainerLayout ==
    JustSaved =>
        LET b == LastWritten
            file == disk[vault[b.vid].path]
            atSalt == SplitAt(file.bytes, SaltLen)
            atNonce == SplitAt(atSalt[2], NonceLen)
        IN  /\ file.exists /\ file.bytes = b.bytes
            /\ SubSeq(b.bytes, 1, 16) = b.salt
            /\ SubSeq(b.bytes, 17, 28) = b.nonce
            /\ \E order \in KeyOrders(b.data) :
                  LET data == to_vec(b.data, order)
                  IN  /\ Len(b.bytes) = 16 + 12 + Len(data) + 16
                      /\ SubSeq(b.bytes, 29, Len(b.bytes)) =
                            Seal(make_key(b.passphrase, b.salt).key, b.nonce, data)
            /\ Len(b.bytes) >= 44
            /\ atSalt[1] = b.salt
            /\ atNonce[1] = b.nonce

\* The shortest file: an empty map was saved, "{}" is 2 bytes.
C16_Witness ==
    /\ JustSaved
    /\ LastWritten.data = EmptyMap
    /\ Len(disk[vault[LastWritten.vid].path].bytes) = 46
    /\ SubSeq(disk[vault[LastWritten.vid].path].bytes, 17, 28) = LastWritten.nonce

(***************************************************************************)
(* Two owners, each opening, changing and saving its Vault, on a file      *)
(* system that does not fail.                                              *)
(***************************************************************************)
\* Vault::save when std::fs::write succeeds.
SaveOk(i) ==
    /\ vault[i].open
    /\ \E salt \in Salts, nonce \in Nonces :
         \E order \in KeyOrders(vault[i].data) :
            SaveWrite(i, SavedBytes(vault[i], salt, nonce, order), "none", 0)
    /\ UNCHANGED hist

NextIndep ==
    \/ \E i \in VaultIds, p \in Paths, pw \in Passphrases : Open(i, p, pw, "none")
    \/ \E i \in VaultIds, n \in Names : Set(i, n, TwoValue)
    \/ \E i \in VaultIds, n \in Names : Remove(i, n)
    \/ \E i \in VaultIds : SaveOk(i)

SpecIndep == Init /\ [][NextIndep]_vars

(***************************************************************************)
(* C17. Vault instances are independent: a step of one vault (its open,    *)
(* set, remove or save) leaves what get returns for every name and what    *)
(* entries returns on every other open vault as it was, the                *)
(* vaults opened from the same path included; the map of an open vault     *)
(* changes only in a set or remove of that vault; and what a save wrote    *)
(* is the map of a vault only when that vault is opened afterwards.        *)
(***************************************************************************)
C17_InstancesIndependent ==
    [][\A j \in VaultIds :
          /\ (vault[j].open /\ res'.vid # j) =>
                /\ vault'[j].open
                /\ \A n \in Names : vault_get(vault'[j], n) = vault_get(vault[j], n)
                /\ \A order \in KeyOrders(vault[j].data) :
                      vault_entries(vault'[j], order) = vault_entries(vault[j], order)
          /\ (vault[j].open /\ vault'[j] # vault[j]) =>
                res'.vid = j /\ res'.op \in {"set", "remove"}
          /\ (~vault[j].open /\ vault'[j].open) =>
                /\ res'.vid = j /\ res'.op = "open"
                /\ Intact(res'.path) => vault'[j].data = saved[res'.path].data
      ]_vars

\* Vault 1 set a name that vault 2, open on the same path under the same
\* passphrase, does not hold; the file holds what vault 2 saved.
C17_Witness ==
    /\ res.op = "set" /\ res.vid = 1
    /\ vault[1].open /\ vault[2].open
    /\ vault[1].path = vault[2].path
    /\ vault[1].passphrase = vault[2].passphrase
    /\ vault_get(vault[1], res.name) = Some(TwoValue)
    /\ vault_get(vault[2], res.name) = None
    /\ Intact(vault[2].path)
    /\ saved[vault[2].path].data = vault[2].data
    /\ DOMAIN vault[2].data # {}

====
